---- MODULE Spec2Model ----
(***************************************************************************)
(* Model of the Manifold portfolio analyzer (manifold-api.js): the CPMM    *)
(* share/cost solver, the liquidation valuator, the return estimator, the  *)
(* position pipeline and the ranking functions.                            *)
(*                                                                         *)
(* Numbers.  JavaScript numbers are modelled as fixed-point integers: the  *)
(* integer v stands for the real v / SCALE.  Every product and quotient    *)
(* is truncated to that unit (MulDiv); the rounding of IEEE doubles is not *)
(* modelled.  JavaScript values that may be undefined, null or NaN are     *)
(* modelled as tagged records (Num, Undefined, Null, NaN).                 *)
(***************************************************************************)
EXTENDS Integers, Sequences, FiniteSets, TLC

VARIABLES
    ammArgs,    \* arguments of a call of the AMM solver / valuator
    ammPc,      \* which AMM function has returned: "args" before any call
    ammRet,     \* its results
    retArgs,    \* arguments of a call of calculateReturnIfCorrect
    retPc,      \* "args" before the call, "done" after it
    retVal,     \* its result
    rawData,    \* the argument of processPositions, and Date.now()
    pipePc,     \* "args" before the call, "done" after it
    positions,  \* the array processPositions returns
    rankIn,     \* the argument of the ranking functions
    rankPc,     \* "args" before a call, then the function that returned
    rankOut,    \* the array it returns
    fetchCall,  \* a call of getUserPositions: its locals and where it stands
    requests,   \* the page requests it has sent, in order
    served,     \* the page data the server has answered with, in order
    runs,       \* the calls of analyzePortfolio that reached the network
    dom         \* what the page shows, and the globals of the page script

ammVars == <<ammArgs, ammPc, ammRet>>
retVars == <<retArgs, retPc, retVal>>
pipeVars == <<rawData, pipePc, positions>>
rankVars == <<rankIn, rankPc, rankOut>>
fetchVars == <<fetchCall, requests, served>>
uiVars == <<runs, dom>>
vars == <<ammArgs, ammPc, ammRet, retArgs, retPc, retVal,
          rawData, pipePc, positions, rankIn, rankPc, rankOut,
          fetchCall, requests, served, runs, dom>>

\* What a call of one group of functions leaves alone.
AmmFrame == UNCHANGED <<retVars, pipeVars, rankVars, fetchVars, uiVars>>
RetFrame == UNCHANGED <<ammVars, pipeVars, rankVars, fetchVars, uiVars>>
PipeFrame == UNCHANGED <<ammVars, retVars, rankVars, fetchVars, uiVars>>
RankFrame == UNCHANGED <<ammVars, retVars, pipeVars, fetchVars, uiVars>>
FetchFrame == UNCHANGED <<ammVars, retVars, pipeVars, rankVars, uiVars>>
UiFrame == UNCHANGED <<ammVars, retVars, pipeVars, rankVars, fetchVars>>

----------------------------------------------------------------------------
(* Fixed-point arithmetic                                                  *)

\* One currency unit / one share, in model units (resolution 1e-6).
SCALE == 1000 * 1000

\* Largest integer TLC represents.
MaxInt == (1024 * 1024 * 1024 - 1) * 2 + 1

Abs(a) == IF a < 0 THEN 0 - a ELSE a
Max(a, b) == IF a >= b THEN a ELSE b

\* <<q, r>> with a * b = q * c + r and 0 <= r < c, for 0 <= a < c, b >= 0,
\* computed bit by bit over b so that no intermediate exceeds 3 * c.
RECURSIVE MulDivQR(_, _, _)
MulDivQR(a, b, c) ==
    IF b = 0 THEN <<0, 0>>
    ELSE LET h == MulDivQR(a, b \div 2, c)
             t == 2 * h[2] + (IF b % 2 = 1 THEN a ELSE 0)
         IN  <<2 * h[1] + (t \div c), t % c>>

\* floor(a * b / c) for a, b >= 0 and c > 0, without overflowing.
MulDiv(a, b, c) ==
    IF a = 0 \/ b = 0 THEN 0
    ELSE IF b <= MaxInt \div a THEN (a * b) \div c
    ELSE (a \div c) * b + MulDivQR(a % c, b, c)[1]

\* x * y and x / y of two fixed-point numbers.
FMul(x, y) == MulDiv(x, y, SCALE)
FDiv(x, y) == MulDiv(x, SCALE, y)

\* t ^ e for a fixed-point t in [0, 1] and an integer e >= 1.
RECURSIVE FPowInt(_, _)
FPowInt(t, e) == IF e = 1 THEN t ELSE FMul(t, FPowInt(t, e - 1))

\* The largest fixed-point r in [lo, hi] with r ^ e <= t (lo satisfies it).
RECURSIVE FRootSearch(_, _, _, _)
FRootSearch(t, e, lo, hi) ==
    IF hi - lo <= 1
    THEN IF FPowInt(hi, e) <= t THEN hi ELSE lo
    ELSE LET m == (lo + hi) \div 2
         IN  IF FPowInt(m, e) <= t
             THEN FRootSearch(t, e, m, hi)
             ELSE FRootSearch(t, e, lo, m)

\* t ^ (a / b) for a fixed-point t in [0, 1] and integers a, b >= 1:
\* Math.pow with a rational exponent.
FPow(t, a, b) ==
    LET root == IF b = 1 THEN t ELSE FRootSearch(t, b, 0, SCALE)
    IN  FPowInt(root, a)

\* floor(|a| * |b| / c) with the sign of a * b, for c > 0.
SMulDiv(a, b, c) ==
    IF (a < 0) = (b < 0) THEN MulDiv(Abs(a), Abs(b), c)
    ELSE 0 - MulDiv(Abs(a), Abs(b), c)

----------------------------------------------------------------------------
(* JavaScript values that need not be numbers                              *)

Undefined == [t |-> "undefined", v |-> 0]
Null == [t |-> "null", v |-> 0]
NaN == [t |-> "nan", v |-> 0]
Num(x) == [t |-> "num", v |-> x]
IsNum(x) == x.t = "num"

\* ToNumber: undefined is NaN, null is 0.
ToNumber(x) ==
    IF x.t = "undefined" THEN NaN ELSE IF x.t = "null" THEN Num(0) ELSE x

\* !!x for undefined, null, NaN and numbers.
Truthy(x) == IsNum(x) /\ x.v # 0

\* a < b, a <= b, a > b, a >= b: false as soon as one side is NaN.
JsLt(a, b) == IsNum(ToNumber(a)) /\ IsNum(ToNumber(b)) /\ ToNumber(a).v < ToNumber(b).v
JsLe(a, b) == IsNum(ToNumber(a)) /\ IsNum(ToNumber(b)) /\ ToNumber(a).v <= ToNumber(b).v
JsGt(a, b) == JsLt(b, a)
JsGe(a, b) == JsLe(b, a)

\* a - b, a * b and a / b (b # 0): NaN as soon as one side is NaN.
JsSub(a, b) ==
    IF IsNum(ToNumber(a)) /\ IsNum(ToNumber(b))
    THEN Num(ToNumber(a).v - ToNumber(b).v) ELSE NaN
JsMul(a, b) ==
    IF IsNum(ToNumber(a)) /\ IsNum(ToNumber(b))
    THEN Num(SMulDiv(ToNumber(a).v, ToNumber(b).v, SCALE)) ELSE NaN
JsDiv(a, b) ==
    IF IsNum(ToNumber(a)) /\ IsNum(ToNumber(b))
    THEN Num(SMulDiv(ToNumber(a).v, SCALE, ToNumber(b).v)) ELSE NaN

----------------------------------------------------------------------------
(* The CPMM solver (manifold-api.js, lines 77-146)                         *)

\* A pool is [YES |-> reserve, NO |-> reserve]; an absent reserve is 0, as
\* the code reads it (pool.YES || 0).  The weight p is the rational
\* p.num / p.den, strictly between 0 and 1.
Outcomes == {"YES", "NO"}
SupportedMechanisms == {"cpmm-1", "cpmm-multi-1"}

\* Iterations of the binary search (for (let i = 0; i < 50; i++)).
BISECTION_STEPS == 50

\* The early-exit tolerance of the binary search, 0.0001.
BISECTION_TOLERANCE == SCALE \div 10000

\* calculateCpmmShares.  With k = y^p * n^(1-p), the code's
\*   Math.pow(k * Math.pow(betAmount + n, p - 1), 1 / p)
\* is y * (n / (betAmount + n)) ^ ((1 - p) / p), and its
\*   Math.pow(k * Math.pow(betAmount + y, -p), 1 / (1 - p))
\* is n * (y / (betAmount + y)) ^ (p / (1 - p)); the powers are evaluated in
\* that form, with the exponent as the ratio of two integers.
calculateCpmmShares(pool, p, betAmount, outcome) ==
    IF betAmount = 0 THEN 0
    ELSE LET y == pool.YES
             n == pool.NO
         IN  IF outcome = "YES"
             THEN y + betAmount
                    - FMul(y, FPow(FDiv(n, betAmount + n), p.den - p.num, p.num))
             ELSE n + betAmount
                    - FMul(n, FPow(FDiv(y, betAmount + y), p.num, p.den - p.num))

\* The probability the binary search starts from: n / (y + n), or 0.5.
poolProb(pool) ==
    IF pool.YES + pool.NO > 0 THEN FDiv(pool.NO, pool.YES + pool.NO)
    ELSE SCALE \div 2

\* The first lower end of the binary search.
bisectionLowerBound(pool, shares, outcome) ==
    IF outcome = "YES" THEN FMul(shares, poolProb(pool))
    ELSE FMul(shares, SCALE - poolProb(pool))

\* bisectionStep with the two ends exchanged: the lower end moves when too
\* many shares are received.
bisectionStep_EndsExchanged(pool, p, shares, outcome, st) ==
    LET mid == (st.minAmount + st.maxAmount) \div 2
        sharesReceived == calculateCpmmShares(pool, p, mid, outcome)
    IN  IF Abs(sharesReceived - shares) < BISECTION_TOLERANCE
        THEN [st EXCEPT !.mid = mid, !.done = TRUE]
        ELSE IF sharesReceived < shares
        THEN [st EXCEPT !.mid = mid, !.maxAmount = mid]
        ELSE [st EXCEPT !.mid = mid, !.minAmount = mid]

\* One iteration of the binary search on the state
\* [minAmount, maxAmount, mid, done]; done is the early return.
bisectionStep(pool, p, shares, outcome, st) ==
    LET mid == (st.minAmount + st.maxAmount) \div 2
        sharesReceived == calculateCpmmShares(pool, p, mid, outcome)
    IN  IF Abs(sharesReceived - shares) < BISECTION_TOLERANCE
        THEN [st EXCEPT !.mid = mid, !.done = TRUE]
        ELSE IF sharesReceived < shares
        THEN [st EXCEPT !.mid = mid, !.minAmount = mid]
        ELSE [st EXCEPT !.mid = mid, !.maxAmount = mid]

\* The loop: at most BISECTION_STEPS iterations, then mid is returned.
RECURSIVE bisectionLoop(_, _, _, _, _, _)
bisectionLoop(pool, p, shares, outcome, st, i) ==
    IF i >= BISECTION_STEPS \/ st.done THEN st.mid
    ELSE bisectionLoop(pool, p, shares, outcome,
                       bisectionStep(pool, p, shares, outcome, st), i + 1)

\* calculateAmountToBuyShares.
calculateAmountToBuyShares(pool, p, shares, outcome) ==
    IF shares <= 0 THEN 0
    ELSE bisectionLoop(pool, p, shares, outcome,
                       [minAmount |-> bisectionLowerBound(pool, shares, outcome),
                        maxAmount |-> shares, mid |-> 0, done |-> FALSE], 0)

oppositeOutcome(outcome) == IF outcome = "YES" THEN "NO" ELSE "YES"

\* calculateSaleValue buying shares of the outcome held, not of the opposite one.
calculateSaleValue_SameOutcome(shares, outcome, pool, p, mechanism) ==
    IF mechanism \notin SupportedMechanisms THEN 0
    ELSE IF pool.YES <= 0 \/ pool.NO <= 0 THEN 0
    ELSE LET buyAmount == calculateAmountToBuyShares(pool, p, shares, outcome)
         IN  Max(0, shares - buyAmount)

\* calculateSaleValue.
calculateSaleValue(shares, outcome, pool, p, mechanism) ==
    IF mechanism \notin SupportedMechanisms THEN 0
    ELSE IF pool.YES <= 0 \/ pool.NO <= 0 THEN 0
    ELSE LET buyAmount ==
                 calculateAmountToBuyShares(pool, p, shares, oppositeOutcome(outcome))
         IN  Max(0, shares - buyAmount)

----------------------------------------------------------------------------
(* Calls of the solver and the valuator on bounded arguments               *)

\* Reserves are 0, 10, ..., 10 * MaxReserve currency units.
MaxReserve == 3
\* Share counts are 0, 2.5, ..., 2.5 * MaxShares.
MaxShares == 4

ReserveValues == {10 * k * SCALE : k \in 0..MaxReserve}
ShareValues == {(5 * k * SCALE) \div 2 : k \in 0..MaxShares}
Pools == [YES : ReserveValues, NO : ReserveValues]
Half == [num |-> 1, den |-> 2]
Weights == {Half, [num |-> 1, den |-> 3], [num |-> 2, den |-> 3]}
Mechanisms == SupportedMechanisms \cup {"dpm-2", ""}

AmmIdle ==
    /\ ammArgs = [pool |-> [YES |-> 0, NO |-> 0], p |-> Half, shares |-> 0,
                  outcome |-> "YES"]
    /\ ammPc = "idle"
    /\ ammRet = [amount |-> 0, sharesBack |-> 0, mechanism |-> "", saleValue |-> 0]

AmmInit ==
    /\ ammArgs \in [pool : Pools, p : Weights, shares : ShareValues,
                    outcome : Outcomes]
    /\ ammPc = "args"
    /\ ammRet = [amount |-> 0, sharesBack |-> 0, mechanism |-> "", saleValue |-> 0]

\* amount = calculateAmountToBuyShares(pool, p, shares, outcome)
CostFromShares ==
    /\ ammPc = "args"
    /\ ammRet' = [ammRet EXCEPT !.amount =
           calculateAmountToBuyShares(ammArgs.pool, ammArgs.p, ammArgs.shares,
                                      ammArgs.outcome)]
    /\ ammPc' = "cost"
    /\ UNCHANGED ammArgs
    /\ AmmFrame

\* sharesBack = calculateCpmmShares(pool, p, amount, outcome)
SharesFromCost ==
    /\ ammPc = "cost"
    /\ ammRet' = [ammRet EXCEPT !.sharesBack =
           calculateCpmmShares(ammArgs.pool, ammArgs.p, ammRet.amount,
                               ammArgs.outcome)]
    /\ ammPc' = "shares"
    /\ UNCHANGED ammArgs
    /\ AmmFrame

\* saleValue = calculateSaleValue(shares, outcome, pool, p, mechanism)
SaleValue ==
    /\ ammPc = "args"
    /\ \E mechanism \in Mechanisms :
           ammRet' = [ammRet EXCEPT
               !.mechanism = mechanism,
               !.saleValue = calculateSaleValue(ammArgs.shares, ammArgs.outcome,
                                                ammArgs.pool, ammArgs.p, mechanism)]
    /\ ammPc' = "sale"
    /\ UNCHANGED ammArgs
    /\ AmmFrame

----------------------------------------------------------------------------
(* The solver and the valuator: C1, C2                                     *)

PoolUsable(pool) == pool.YES > 0 /\ pool.NO > 0

\* C1: for shares > 0, calculateSaleValue returns v with 0 <= v <= shares;
\* on a supported mechanism and a pool with both reserves positive v is
\* shares minus the cost of as many shares of the opposite outcome, floored
\* at 0, and it is 0 otherwise.
C1_SaleValueWithinFaceValue ==
    (ammPc = "sale" /\ ammArgs.shares > 0) =>
        /\ 0 <= ammRet.saleValue
        /\ ammRet.saleValue <= ammArgs.shares
        /\ ammRet.saleValue =
             IF ammRet.mechanism \in {"cpmm-1", "cpmm-multi-1"}
                  /\ PoolUsable(ammArgs.pool)
             THEN Max(0, ammArgs.shares
                           - calculateAmountToBuyShares(
                                 ammArgs.pool, ammArgs.p, ammArgs.shares,
                                 IF ammArgs.outcome = "YES" THEN "NO" ELSE "YES"))
             ELSE 0

\* A sale on an uneven pool that returns part of the face value.
C1_Witness ==
    /\ ammPc = "sale"
    /\ ammRet.mechanism = "cpmm-1"
    /\ ammArgs.pool.YES > ammArgs.pool.NO
    /\ ammArgs.pool.NO > 0
    /\ ammArgs.shares > 0
    /\ 0 < ammRet.saleValue
    /\ ammRet.saleValue < ammArgs.shares

\* The round-trip tolerance, 0.001 shares.
ROUND_TRIP_TOLERANCE == SCALE \div 1000

\* C2: for a pool with both reserves positive, every weight, every outcome
\* and shares > 0, the shares bought with calculateAmountToBuyShares(pool, p,
\* shares, outcome) are within 0.001 of shares.
C2_RoundTripWithinTolerance ==
    (ammPc = "shares" /\ PoolUsable(ammArgs.pool) /\ ammArgs.shares > 0) =>
        Abs(ammRet.sharesBack - ammArgs.shares) <= ROUND_TRIP_TOLERANCE

\* The same round trip at the weight 1/2 only.
RoundTripAtHalf ==
    (ammPc = "shares" /\ PoolUsable(ammArgs.pool) /\ ammArgs.shares > 0
        /\ ammArgs.p = Half) =>
        Abs(ammRet.sharesBack - ammArgs.shares) <= ROUND_TRIP_TOLERANCE

----------------------------------------------------------------------------
(* The return estimator (manifold-api.js, lines 160-174)                   *)

\* 1000 * 60 * 60 * 24: the milliseconds of a day.  Times are integers in ms.
MS_PER_DAY == 1000 * 60 * 60 * 24

\* (closeTime - currentTime) / MS_PER_DAY, as a fixed-point number of days.
daysBetween(closeTime, currentTime) ==
    SMulDiv(closeTime - currentTime, SCALE, MS_PER_DAY)

\* The horizon without its floor of one day.
effectiveDaysOf_NoFloor(daysUntilClose) == daysUntilClose

\* Math.max(daysUntilClose, 1)
effectiveDaysOf(daysUntilClose) == Max(daysUntilClose, SCALE)

\* calculateReturnIfCorrect with daysUntilClose < 0 for daysUntilClose <= 0.
calculateReturnIfCorrect_ClosingNow(saleValue, shares, closeTime, currentTime) ==
    IF ~Truthy(closeTime) THEN Null
    ELSE LET daysUntilClose == daysBetween(closeTime.v, currentTime)
         IN  IF daysUntilClose < 0 \/ JsLe(saleValue, Num(0)) THEN Null
             ELSE LET profitIfCorrect == JsSub(Num(shares), saleValue)
                      effectiveDays == effectiveDaysOf(daysUntilClose)
                  IN  JsMul(JsDiv(profitIfCorrect, saleValue),
                            Num(FDiv(365 * SCALE, effectiveDays)))

\* calculateReturnIfCorrect.  saleValue and closeTime are JavaScript values,
\* shares and currentTime are numbers.
calculateReturnIfCorrect(saleValue, shares, closeTime, currentTime) ==
    IF ~Truthy(closeTime) THEN Null
    ELSE LET daysUntilClose == daysBetween(closeTime.v, currentTime)
         IN  IF daysUntilClose <= 0 \/ JsLe(saleValue, Num(0)) THEN Null
             ELSE LET profitIfCorrect == JsSub(Num(shares), saleValue)
                      effectiveDays == effectiveDaysOf(daysUntilClose)
                  IN  JsMul(JsDiv(profitIfCorrect, saleValue),
                            Num(FDiv(365 * SCALE, effectiveDays)))

\* Date.now() of the calls, in ms.
Now == 2 * MS_PER_DAY

\* closeTime is absent, null, 0, or Now + k half days, k in -1..MaxHalfDays.
MaxHalfDays == 4
\* saleValue is NaN or k / 2 currency units, k in -1..MaxSaleHalves.
MaxSaleHalves == 4

CloseTimes ==
    {Undefined, Null, Num(0)}
        \cup {Num(Now + k * (MS_PER_DAY \div 2)) : k \in -1..MaxHalfDays}
SaleValues == {NaN} \cup {Num(k * (SCALE \div 2)) : k \in -1..MaxSaleHalves}

RetIdle ==
    /\ retArgs = [saleValue |-> Num(0), shares |-> 0, closeTime |-> Undefined,
                  currentTime |-> Now]
    /\ retPc = "idle"
    /\ retVal = Null

RetInit ==
    /\ retArgs \in [saleValue : SaleValues, shares : {SCALE, 2 * SCALE},
                    closeTime : CloseTimes, currentTime : {Now}]
    /\ retPc = "args"
    /\ retVal = Null

\* retVal = calculateReturnIfCorrect(saleValue, shares, closeTime, currentTime)
ReturnIfCorrect ==
    /\ retPc = "args"
    /\ retVal' = calculateReturnIfCorrect(retArgs.saleValue, retArgs.shares,
                                          retArgs.closeTime, retArgs.currentTime)
    /\ retPc' = "done"
    /\ UNCHANGED retArgs
    /\ RetFrame

----------------------------------------------------------------------------
(* The return estimator: C3, C4                                            *)

\* closeTime is neither undefined nor null.
CloseTimePresent == IsNum(retArgs.closeTime)
\* closeTime - currentTime, in ms; daysUntilClose has its sign.
MsUntilClose == retArgs.closeTime.v - retArgs.currentTime
SaleValueNotPositive == IsNum(retArgs.saleValue) /\ retArgs.saleValue.v <= 0
SaleValuePositive == IsNum(retArgs.saleValue) /\ retArgs.saleValue.v > 0

\* C3: calculateReturnIfCorrect returns null exactly when closeTime is
\* absent, or daysUntilClose <= 0, or saleValue <= 0; it returns a number
\* only when closeTime is present, daysUntilClose > 0 and saleValue > 0.
C3_UnavailableWhenNotComputable ==
    retPc = "done" =>
        /\ retVal = Null <=>
             (~CloseTimePresent \/ MsUntilClose <= 0 \/ SaleValueNotPositive)
        /\ IsNum(retVal) =>
             (CloseTimePresent /\ MsUntilClose > 0 /\ SaleValuePositive)

\* A market that closes at the very time of the call: null, though the sale
\* value is positive.
C3_Witness ==
    /\ retPc = "done"
    /\ CloseTimePresent
    /\ MsUntilClose = 0
    /\ SaleValuePositive
    /\ retVal = Null

----------------------------------------------------------------------------
(* The position pipeline (manifold-api.js, lines 148-158 and 176-301)      *)

\* calculateSimpleSaleValue.  probability is a JavaScript value.
calculateSimpleSaleValue(shares, probability, outcome) ==
    IF outcome = "YES" THEN JsMul(Num(shares), probability)
    ELSE IF outcome = "NO" THEN JsMul(Num(shares), JsSub(Num(SCALE), probability))
    ELSE Num(0)

\* The dust threshold, 0.01 shares.
DUST_THRESHOLD == SCALE \div 100

EmptyPool == [YES |-> 0, NO |-> 0]

\* contractsLookup[contractId]: the last contract of that id, as a sequence
\* of length 1, or <<>> when there is none.
contractsLookup(contracts, contractId) ==
    LET idx == {i \in DOMAIN contracts : contracts[i].id = contractId}
    IN  IF idx = {} THEN <<>>
        ELSE <<contracts[CHOOSE i \in idx : \A j \in idx : j <= i]>>

\* p = contract.p || 0.5; an absent weight is [num |-> 0, den |-> 1].
contractWeight(contract) == IF contract.p.num = 0 THEN Half ELSE contract.p

\* Lines 221-246: the probability and the pool of a holding.  A contract
\* holds [prob, pool]; an answer holds [id, resolved, prob, poolYes, poolNo],
\* resolved when its resolution is neither undefined nor null.
resolveMarketData(contract, mechanism, answerId) ==
    IF mechanism = "cpmm-1"
    THEN [probability |-> contract.prob, pool |-> contract.pool]
    ELSE IF mechanism = "cpmm-multi-1" /\ answerId # ""
    THEN LET answers == contract.answers
             idx == {i \in DOMAIN answers : answers[i].id = answerId}
         IN  IF idx = {} THEN [probability |-> Null, pool |-> EmptyPool]
             ELSE LET ans == answers[CHOOSE i \in idx : \A j \in idx : i <= j]
                  IN  IF ans.resolved
                      THEN [probability |-> Null, pool |-> EmptyPool]
                      ELSE [probability |-> ans.prob,
                            pool |-> [YES |-> ans.poolYes, NO |-> ans.poolNo]]
    ELSE [probability |-> Null, pool |-> EmptyPool]

\* Lines 248-257: the fallback, taken when probability === null.  <<>> when
\* the holding is skipped, else <<probability>>.
fallbackProbability(probability, pool) ==
    IF probability.t = "null"
    THEN IF pool.YES > 0 /\ pool.NO > 0
         THEN <<Num(FDiv(pool.NO, pool.YES + pool.NO))>>
         ELSE <<>>
    ELSE <<probability>>

\* Lines 259-296: the record of a priced holding.  The display strings
\* (question, answer, url) are left out.
valuation(contract, mechanism, outcome, shares, probability, pool, currentTime) ==
    LET closeTime == contract.closeTime
        ammSaleValue ==
            IF pool.YES > 0 /\ pool.NO > 0
            THEN calculateSaleValue(shares, outcome, pool,
                                    contractWeight(contract), mechanism)
            ELSE 0
        fairValue == calculateSimpleSaleValue(shares, probability, outcome)
        saleValue == IF ammSaleValue > 0 THEN Num(ammSaleValue) ELSE fairValue
        slippage ==
            IF JsGt(fairValue, Num(0)) /\ ammSaleValue > 0
            THEN JsDiv(JsSub(fairValue, Num(ammSaleValue)), fairValue)
            ELSE Num(0)
    IN  [contractId |-> contract.id,
         outcome |-> outcome,
         shares |-> shares,
         saleValue |-> saleValue,
         fairValue |-> fairValue,
         slippage |-> slippage,
         probability |-> probability,
         daysUntilClose |->
             IF Truthy(closeTime) THEN Num(daysBetween(closeTime.v, currentTime))
             ELSE Null,
         returnIfCorrect |->
             calculateReturnIfCorrect(saleValue, shares, closeTime, currentTime)]

\* processMetrics without the dust threshold (if (shares < 0.01) continue).
processMetrics_NoDustCheck(contract, mechanism, metrics, currentTime) ==
    LET yesShares == metrics.totalShares.YES
        noShares == metrics.totalShares.NO
        outcome == IF yesShares > noShares THEN "YES" ELSE "NO"
        shares == IF yesShares > noShares THEN yesShares ELSE noShares
        market == resolveMarketData(contract, mechanism, metrics.answerId)
        probability == fallbackProbability(market.probability, market.pool)
    IN  IF yesShares <= 0 /\ noShares <= 0 THEN <<>>
        ELSE IF probability = <<>> THEN <<>>
        ELSE <<valuation(contract, mechanism, outcome, shares, probability[1],
                         market.pool, currentTime)>>

\* processMetrics with yesShares >= noShares for yesShares > noShares.
processMetrics_TieIsYes(contract, mechanism, metrics, currentTime) ==
    LET yesShares == metrics.totalShares.YES
        noShares == metrics.totalShares.NO
        outcome == IF yesShares >= noShares THEN "YES" ELSE "NO"
        shares == IF yesShares >= noShares THEN yesShares ELSE noShares
        market == resolveMarketData(contract, mechanism, metrics.answerId)
        probability == fallbackProbability(market.probability, market.pool)
    IN  IF yesShares <= 0 /\ noShares <= 0 THEN <<>>
        ELSE IF shares < DUST_THRESHOLD THEN <<>>
        ELSE IF probability = <<>> THEN <<>>
        ELSE <<valuation(contract, mechanism, outcome, shares, probability[1],
                         market.pool, currentTime)>>

\* Lines 200-296: one iteration of the inner loop; <<>> on a continue, else
\* the record pushed.  metrics holds [totalShares, answerId]; an absent share
\* count is 0 and an absent answerId is "".
processMetrics(contract, mechanism, metrics, currentTime) ==
    LET yesShares == metrics.totalShares.YES
        noShares == metrics.totalShares.NO
        outcome == IF yesShares > noShares THEN "YES" ELSE "NO"
        shares == IF yesShares > noShares THEN yesShares ELSE noShares
        market == resolveMarketData(contract, mechanism, metrics.answerId)
        probability == fallbackProbability(market.probability, market.pool)
    IN  IF yesShares <= 0 /\ noShares <= 0 THEN <<>>
        ELSE IF shares < DUST_THRESHOLD THEN <<>>
        ELSE IF probability = <<>> THEN <<>>
        ELSE <<valuation(contract, mechanism, outcome, shares, probability[1],
                         market.pool, currentTime)>>

RECURSIVE processMetricsList(_, _, _, _)
processMetricsList(contract, mechanism, metricsList, currentTime) ==
    IF metricsList = <<>> THEN <<>>
    ELSE processMetrics(contract, mechanism, Head(metricsList), currentTime)
             \o processMetricsList(contract, mechanism, Tail(metricsList),
                                   currentTime)

\* processEntry without the skip of resolved markets.
processEntry_KeepsResolved(contracts, entry, currentTime) ==
    LET found == contractsLookup(contracts, entry.contractId)
    IN  IF found = <<>> THEN <<>>
        ELSE IF found[1].mechanism \notin SupportedMechanisms THEN <<>>
        ELSE processMetricsList(found[1], found[1].mechanism, entry.metricsList,
                                currentTime)

\* Lines 190-198: one iteration of the outer loop on the entry
\* [contractId, metricsList] of metricsByContract.
processEntry(contracts, entry, currentTime) ==
    LET found == contractsLookup(contracts, entry.contractId)
    IN  IF found = <<>> THEN <<>>
        ELSE IF found[1].isResolved THEN <<>>
        ELSE IF found[1].mechanism \notin SupportedMechanisms THEN <<>>
        ELSE processMetricsList(found[1], found[1].mechanism, entry.metricsList,
                                currentTime)

RECURSIVE processEntries(_, _, _)
processEntries(contracts, entries, currentTime) ==
    IF entries = <<>> THEN <<>>
    ELSE processEntry(contracts, Head(entries), currentTime)
             \o processEntries(contracts, Tail(entries), currentTime)

\* processPositions.  rawData holds contracts, metricsByContract (the
\* sequence Object.entries gives) and currentTime (Date.now()).
processPositions(data) ==
    processEntries(data.contracts, data.metricsByContract, data.currentTime)

----------------------------------------------------------------------------
(* Calls of processPositions on bounded API data                           *)

\* The dominant share counts of the varied holding reach 2.5 * MaxHoldingShares.
MaxHoldingShares == 1

ProbValues == {Undefined, Null, Num(SCALE \div 2)}
UsablePool == [YES |-> 30 * SCALE, NO |-> 10 * SCALE]
PipelinePools == {EmptyPool, [YES |-> 10 * SCALE, NO |-> 0], UsablePool}
PipelineCloseTimes == {Undefined, Num(Now - MS_PER_DAY), Num(Now + 10 * MS_PER_DAY)}
NoWeight == [num |-> 0, den |-> 1]

\* What the API delivers for a market, by mechanism: a binary market has its
\* own prob and pool, a multiple-choice market has answers, each with its own.
FirstAnswer ==
    [id |-> "a0", resolved |-> FALSE, prob |-> Num(SCALE \div 2),
     poolYes |-> 10 * SCALE, poolNo |-> 10 * SCALE]
BinaryShapes ==
    {[mechanism |-> "cpmm-1", prob |-> pr, pool |-> pl, answers |-> <<>>] :
        pr \in ProbValues, pl \in PipelinePools}
MultiShapes ==
    {[mechanism |-> "cpmm-multi-1", prob |-> Undefined, pool |-> EmptyPool,
      answers |-> <<FirstAnswer,
                    [id |-> "a1", resolved |-> rs, prob |-> pr,
                     poolYes |-> pl.YES, poolNo |-> pl.NO]>>] :
        rs \in BOOLEAN, pr \in ProbValues, pl \in PipelinePools}
OtherShapes ==
    {[mechanism |-> m, prob |-> Num(SCALE \div 2), pool |-> UsablePool,
      answers |-> <<>>] : m \in {"dpm-2", ""}}

Markets ==
    {[id |-> "m1", isResolved |-> r, mechanism |-> sh.mechanism,
      closeTime |-> ct, p |-> w, prob |-> sh.prob, pool |-> sh.pool,
      answers |-> sh.answers] :
        r \in BOOLEAN, sh \in BinaryShapes \cup MultiShapes \cup OtherShapes,
        ct \in PipelineCloseTimes, w \in {NoWeight, [num |-> 1, den |-> 3]}}

HoldingYes ==
    {0, SCALE \div 200, DUST_THRESHOLD}
        \cup {(5 * k * SCALE) \div 2 : k \in 1..MaxHoldingShares}
HoldingNo == {0, DUST_THRESHOLD, (5 * SCALE) \div 2}
Holdings == [totalShares : [YES : HoldingYes, NO : HoldingNo],
             answerId : {"", "a1", "a2"}]

\* A second, open binary market without a usable pool, held twice (a dust
\* holding and a two-sided one), and a holding whose market was not delivered.
SecondMarket ==
    [id |-> "m2", isResolved |-> FALSE, mechanism |-> "cpmm-1",
     closeTime |-> Undefined, p |-> NoWeight, prob |-> Num(SCALE \div 2),
     pool |-> EmptyPool, answers |-> <<>>]
DustHolding ==
    [totalShares |-> [YES |-> 0, NO |-> SCALE \div 200], answerId |-> ""]
TwoSidedHolding ==
    [totalShares |-> [YES |-> SCALE, NO |-> SCALE \div 4], answerId |-> ""]

RawData(market, holding) ==
    [contracts |-> <<market, SecondMarket>>,
     metricsByContract |->
         <<[contractId |-> "m1", metricsList |-> <<holding>>],
           [contractId |-> "m2", metricsList |-> <<DustHolding, TwoSidedHolding>>],
           [contractId |-> "m3", metricsList |-> <<TwoSidedHolding>>]>>,
     currentTime |-> Now]

PipeIdle ==
    /\ rawData = [contracts |-> <<>>, metricsByContract |-> <<>>, currentTime |-> Now]
    /\ pipePc = "idle"
    /\ positions = <<>>

PipeInit ==
    /\ rawData \in {RawData(m, h) : m \in Markets,
                       h \in {g \in Holdings : g.answerId = ""}}
                   \cup {RawData(m, h) :
                           m \in {k \in Markets : k.mechanism = "cpmm-multi-1"},
                           h \in Holdings}
    /\ pipePc = "args"
    /\ positions = <<>>

\* positions = processPositions(rawData)
ProcessPositions ==
    /\ pipePc = "args"
    /\ positions' = processPositions(rawData)
    /\ pipePc' = "done"
    /\ UNCHANGED rawData
    /\ PipeFrame

----------------------------------------------------------------------------
(* The position pipeline: C5 .. C9                                         *)

\* The records emitted for the market of id contractId.
RecordsOf(contractId) ==
    {i \in DOMAIN positions : positions[i].contractId = contractId}
\* The holdings delivered for it.
EntriesOf(contractId) ==
    {rawData.metricsByContract[k] :
        k \in {n \in DOMAIN rawData.metricsByContract :
                  rawData.metricsByContract[n].contractId = contractId}}
HoldingsOf(contractId) ==
    UNION {{e.metricsList[j] : j \in DOMAIN e.metricsList} :
              e \in EntriesOf(contractId)}
\* The larger of the two share counts of a holding.
DominantShares(h) == Max(h.totalShares.YES, h.totalShares.NO)

\* The varied market and its holding.
Market1 == rawData.contracts[1]
Holding1 == rawData.metricsByContract[1].metricsList[1]
Market1Open ==
    ~Market1.isResolved /\ Market1.mechanism \in {"cpmm-1", "cpmm-multi-1"}
Holding1Priced == DominantShares(Holding1) * 100 >= SCALE

\* C5: no record is emitted for a market that is resolved or whose mechanism
\* is neither cpmm-1 nor cpmm-multi-1, whatever is held of it.
C5_ResolvedOrUnsupportedSkipped ==
    pipePc = "done" =>
        \A i \in DOMAIN rawData.contracts :
            (rawData.contracts[i].isResolved
                \/ rawData.contracts[i].mechanism \notin {"cpmm-1", "cpmm-multi-1"})
            => RecordsOf(rawData.contracts[i].id) = {}

\* A resolved binary market with a probability, a usable pool and 2.5 YES
\* shares held: nothing is emitted for it, the other market's record is.
C5_Witness ==
    /\ pipePc = "done"
    /\ Market1.isResolved
    /\ Market1.mechanism = "cpmm-1"
    /\ IsNum(Market1.prob)
    /\ PoolUsable(Market1.pool)
    /\ Holding1.totalShares.YES > SCALE
    /\ RecordsOf("m1") = {}
    /\ positions # <<>>

\* C6: every record has shares >= 0.01, and a market has no more records
\* than holdings whose dominant share count is at least 0.01.
C6_NoDustRecords ==
    pipePc = "done" =>
        /\ \A i \in DOMAIN positions : positions[i].shares * 100 >= SCALE
        /\ \A k \in DOMAIN rawData.metricsByContract :
               LET e == rawData.metricsByContract[k]
               IN  Cardinality(RecordsOf(e.contractId)) <=
                       Cardinality({j \in DOMAIN e.metricsList :
                           DominantShares(e.metricsList[j]) * 100 >= SCALE})

\* 0.005 YES shares of an open binary market with a probability: no record.
C6_Witness ==
    /\ pipePc = "done"
    /\ Market1Open
    /\ Market1.mechanism = "cpmm-1"
    /\ IsNum(Market1.prob)
    /\ Holding1.totalShares.YES = SCALE \div 200
    /\ Holding1.totalShares.NO = 0
    /\ RecordsOf("m1") = {}

\* C7: a record has the outcome and the shares of a holding of its market:
\* YES when yesShares > noShares and NO otherwise, with the larger of the two
\* share counts.
C7_DominantSide ==
    pipePc = "done" =>
        \A i \in DOMAIN positions :
            \E h \in HoldingsOf(positions[i].contractId) :
                /\ positions[i].outcome =
                       IF h.totalShares.YES > h.totalShares.NO THEN "YES" ELSE "NO"
                /\ positions[i].shares = DominantShares(h)
                /\ DominantShares(h) * 100 >= SCALE

\* As many YES as NO shares, 2.5 of each: the record is a NO record of 2.5.
C7_Witness ==
    /\ pipePc = "done"
    /\ Holding1.totalShares.YES = Holding1.totalShares.NO
    /\ Holding1.totalShares.YES > SCALE
    /\ \E i \in RecordsOf("m1") :
           positions[i].outcome = "NO" /\ positions[i].shares = Holding1.totalShares.NO

\* The contract fields give the varied holding no probability: the binary
\* market has no numeric prob, or the answer held is not found, is resolved
\* or has no numeric prob.  Holding1Pool is the pool the holding is priced on.
AnswersHeld ==
    {a \in {Market1.answers[j] : j \in DOMAIN Market1.answers} :
        a.id = Holding1.answerId}
NoProbabilityInFields ==
    IF Market1.mechanism = "cpmm-1" THEN ~IsNum(Market1.prob)
    ELSE \A a \in AnswersHeld : a.resolved \/ ~IsNum(a.prob)
Holding1Pool ==
    IF Market1.mechanism = "cpmm-1" THEN Market1.pool
    ELSE IF \E a \in AnswersHeld : ~a.resolved
    THEN LET a == CHOOSE b \in AnswersHeld : ~b.resolved
         IN  [YES |-> a.poolYes, NO |-> a.poolNo]
    ELSE EmptyPool

\* C8: every record has a numeric probability; a priced holding of an open
\* supported market to which the contract fields give no probability gets
\* no / (yes + no) of its pool when both reserves are positive, and no record
\* otherwise.
C8_ProbabilityFromFieldsOrPool ==
    pipePc = "done" =>
        /\ \A i \in DOMAIN positions : IsNum(positions[i].probability)
        /\ (Market1Open /\ Holding1Priced /\ NoProbabilityInFields) =>
               IF PoolUsable(Holding1Pool)
               THEN \E i \in RecordsOf("m1") :
                        positions[i].probability =
                            Num(MulDiv(Holding1Pool.NO, SCALE,
                                       Holding1Pool.YES + Holding1Pool.NO))
               ELSE RecordsOf("m1") = {}

\* C9: every record has saleValue >= 0 and fairValue >= 0; fairValue is
\* shares x probability for YES and shares x (1 - probability) for NO, and
\* saleValue is the liquidation value when positive, else fairValue.
C9_ValuesNotNegative ==
    pipePc = "done" =>
        \A i \in DOMAIN positions :
            LET pos == positions[i]
                pool == IF pos.contractId = "m1" THEN Holding1Pool ELSE EmptyPool
                amm == IF PoolUsable(pool)
                       THEN calculateSaleValue(
                                pos.shares, pos.outcome, pool,
                                IF Market1.p.num = 0 THEN Half ELSE Market1.p,
                                Market1.mechanism)
                       ELSE 0
            IN  /\ IsNum(pos.saleValue) /\ pos.saleValue.v >= 0
                /\ IsNum(pos.fairValue) /\ pos.fairValue.v >= 0
                /\ pos.fairValue.v =
                       IF pos.outcome = "YES"
                       THEN MulDiv(pos.shares, pos.probability.v, SCALE)
                       ELSE MulDiv(pos.shares, SCALE - pos.probability.v, SCALE)
                /\ pos.saleValue.v = IF amm > 0 THEN amm ELSE pos.fairValue.v

----------------------------------------------------------------------------
(* Ranking (manifold-api.js, lines 6-8 and 303-330)                        *)

\* MARGIN_RATE_DAILY = 0.0003 and MARGIN_RATE_ANNUAL = MARGIN_RATE_DAILY * 365
MARGIN_RATE_DAILY == (3 * SCALE) \div 10000
MARGIN_RATE_ANNUAL == MARGIN_RATE_DAILY * 365

\* x || 0
OrZero(x) == IF Truthy(x) THEN x.v ELSE 0

\* The comparators: (a.returnIfCorrect || 0) - (b.returnIfCorrect || 0) when
\* ascending, (b.returnIfCorrect || 0) - (a.returnIfCorrect || 0) otherwise.
compareReturns(a, b, ascending) ==
    IF ascending THEN OrZero(a.returnIfCorrect) - OrZero(b.returnIfCorrect)
    ELSE OrZero(b.returnIfCorrect) - OrZero(a.returnIfCorrect)

\* Array.prototype.sort is stable: x goes before the first element that the
\* comparator puts after it.
RECURSIVE insertSorted(_, _, _)
insertSorted(sorted, x, ascending) ==
    IF sorted = <<>> THEN <<x>>
    ELSE IF compareReturns(Head(sorted), x, ascending) > 0 THEN <<x>> \o sorted
    ELSE <<Head(sorted)>> \o insertSorted(Tail(sorted), x, ascending)

RECURSIVE sortByReturn(_, _)
sortByReturn(list, ascending) ==
    IF list = <<>> THEN <<>>
    ELSE insertSorted(sortByReturn(SubSeq(list, 1, Len(list) - 1), ascending),
                      list[Len(list)], ascending)

\* p.returnIfCorrect !== null
hasReturn(pos) == pos.returnIfCorrect.t # "null"
\* p.returnIfCorrect <= MARGIN_RATE_ANNUAL for p.returnIfCorrect < MARGIN_RATE_ANNUAL
isBelowMargin_OrEqual(pos) == JsLe(pos.returnIfCorrect, Num(MARGIN_RATE_ANNUAL))

\* p.returnIfCorrect < MARGIN_RATE_ANNUAL
isBelowMargin(pos) == JsLt(pos.returnIfCorrect, Num(MARGIN_RATE_ANNUAL))
\* p.returnIfCorrect >= MARGIN_RATE_ANNUAL
isAboveMargin(pos) == JsGe(pos.returnIfCorrect, Num(MARGIN_RATE_ANNUAL))
keptBelowMargin(pos) == hasReturn(pos) /\ isBelowMargin(pos)

\* getPositionsBelowMarginRate
getPositionsBelowMarginRate(list) ==
    sortByReturn(SelectSeq(list, keptBelowMargin), TRUE)

\* getAllPositionsSorted
getAllPositionsSorted(list) ==
    LET withReturns == SelectSeq(list, hasReturn)
        belowMargin == SelectSeq(withReturns, isBelowMargin)
        aboveMargin == SelectSeq(withReturns, isAboveMargin)
    IN  sortByReturn(belowMargin, TRUE) \o sortByReturn(aboveMargin, FALSE)

\* The lists ranked hold at most MaxPositions records.
MaxPositions == 3

\* The returnIfCorrect of a record: absent, NaN, or a number below, at or
\* above the margin rate.
ReturnValues ==
    {Null, NaN, Num(0 - (SCALE \div 2)), Num(0), Num(SCALE \div 20),
     Num(MARGIN_RATE_ANNUAL), Num(SCALE \div 5), Num(3 * SCALE)}

\* Of a valuation record the ranking reads returnIfCorrect only; contractId
\* tells the records of a list apart.
RankLists ==
    UNION {{[i \in 1..n |-> [contractId |-> i, returnIfCorrect |-> f[i]]] :
               f \in [1..n -> ReturnValues]} : n \in 0..MaxPositions}

RankIdle ==
    /\ rankIn = <<>>
    /\ rankPc = "idle"
    /\ rankOut = <<>>

RankInit ==
    /\ rankIn \in RankLists
    /\ rankPc = "args"
    /\ rankOut = <<>>

\* rankOut = getPositionsBelowMarginRate(rankIn)
BelowMarginRate ==
    /\ rankPc = "args"
    /\ rankOut' = getPositionsBelowMarginRate(rankIn)
    /\ rankPc' = "below"
    /\ UNCHANGED rankIn
    /\ RankFrame

\* rankOut = getAllPositionsSorted(rankIn)
AllPositionsSorted ==
    /\ rankPc = "args"
    /\ rankOut' = getAllPositionsSorted(rankIn)
    /\ rankPc' = "all"
    /\ UNCHANGED rankIn
    /\ RankFrame

----------------------------------------------------------------------------
(* Ranking: C10                                                            *)

RankedIds == {rankOut[i].contractId : i \in DOMAIN rankOut}

\* C10: getPositionsBelowMarginRate returns the records whose returnIfCorrect
\* is a number below MARGIN_RATE_ANNUAL, each once and unchanged, and no
\* other, in ascending order of returnIfCorrect.
C10_BelowMarginAscending ==
    rankPc = "below" =>
        /\ RankedIds =
               {rankIn[i].contractId :
                   i \in {k \in DOMAIN rankIn :
                             /\ IsNum(rankIn[k].returnIfCorrect)
                             /\ rankIn[k].returnIfCorrect.v < MARGIN_RATE_ANNUAL}}
        /\ Len(rankOut) = Cardinality(RankedIds)
        /\ \A i \in DOMAIN rankOut : \E k \in DOMAIN rankIn : rankOut[i] = rankIn[k]
        /\ \A i, j \in DOMAIN rankOut :
               i < j => rankOut[i].returnIfCorrect.v <= rankOut[j].returnIfCorrect.v

\* Two records kept in the opposite of their order in the list, one dropped.
C10_Witness ==
    /\ rankPc = "below"
    /\ Len(rankOut) = 2
    /\ Len(rankIn) = 3
    /\ rankOut[1].contractId > rankOut[2].contractId
    /\ rankOut[1].returnIfCorrect.v < rankOut[2].returnIfCorrect.v

----------------------------------------------------------------------------
(* Ranking: C11                                                            *)

\* The records of rankIn whose returnIfCorrect is present (not null).
PresentIds ==
    {rankIn[k].contractId :
        k \in {n \in DOMAIN rankIn : rankIn[n].returnIfCorrect # Null}}
\* rankOut[i] is below the margin rate.
OutBelow(i) ==
    IsNum(rankOut[i].returnIfCorrect)
        /\ rankOut[i].returnIfCorrect.v < MARGIN_RATE_ANNUAL
\* Below-margin records come first and ascend, the others follow and descend.
GroupedOrder ==
    \A i, j \in DOMAIN rankOut :
        i < j =>
            /\ OutBelow(j) => OutBelow(i)
            /\ (OutBelow(i) /\ OutBelow(j)) =>
                   rankOut[i].returnIfCorrect.v <= rankOut[j].returnIfCorrect.v
            /\ (~OutBelow(i) /\ ~OutBelow(j)) =>
                   rankOut[i].returnIfCorrect.v >= rankOut[j].returnIfCorrect.v

\* C11: getAllPositionsSorted returns a permutation of the records whose
\* returnIfCorrect is present, the below-margin ones first in ascending
\* order, then the others in descending order; a record whose returnIfCorrect
\* is absent is in neither group.
C11_GroupedPermutationOfPresent ==
    rankPc = "all" =>
        /\ RankedIds = PresentIds
        /\ Len(rankOut) = Cardinality(RankedIds)
        /\ \A i \in DOMAIN rankOut : \E k \in DOMAIN rankIn : rankOut[i] = rankIn[k]
        /\ GroupedOrder

\* The same on lists whose returnIfCorrect are numbers or null.
GroupedRankingOfNumbers ==
    (rankPc = "all"
        /\ \A k \in DOMAIN rankIn :
               IsNum(rankIn[k].returnIfCorrect) \/ rankIn[k].returnIfCorrect = Null)
    => /\ RankedIds = PresentIds
       /\ Len(rankOut) = Cardinality(RankedIds)
       /\ \A i \in DOMAIN rankOut : \E k \in DOMAIN rankIn : rankOut[i] = rankIn[k]
       /\ GroupedOrder

----------------------------------------------------------------------------
(* getUserPositions: the paginated fetch                                   *)

\* const limit = 100: the page size asked for.
limit == 100

\* target[key] = value on the entries of an object, in insertion order: an
\* existing key keeps its place and takes the new value.
setEntry(target, entry) ==
    IF \E i \in DOMAIN target : target[i].contractId = entry.contractId
    THEN [i \in DOMAIN target |->
             IF target[i].contractId = entry.contractId THEN entry ELSE target[i]]
    ELSE Append(target, entry)

\* Object.assign(target, source) on objects held as sequences of entries.
RECURSIVE objectAssign(_, _)
objectAssign(target, source) ==
    IF source = <<>> THEN target
    ELSE objectAssign(setEntry(target, Head(source)), Tail(source))

\* The locals of getUserPositions when it is called: it then awaits the
\* answer to its first request.
getUserPositionsCalled(userId) ==
    [userId |-> userId, offset |-> 0, allMetrics |-> <<>>, allContracts |-> <<>>,
     pc |-> "await", status |-> 0, progress |-> ""]

\* The request the call is awaiting the answer of.
pageRequest(call) ==
    [userId |-> call.userId, limit |-> limit, offset |-> call.offset]

\* Lines 42-68: the loop body from the answer to fetch on.  pc is "throw"
\* after the throw, "return" after a break, "await" when the loop goes round.
getUserPositionsResumed(call, response) ==
    IF ~response.ok
    THEN [call EXCEPT !.pc = "throw", !.status = response.status]
    ELSE LET contracts == response.data.contracts
             merged == [call EXCEPT
                 !.allMetrics = objectAssign(@, response.data.metricsByContract),
                 !.allContracts = @ \o contracts,
                 !.progress = "Fetched " \o ToString(Len(call.allContracts)
                                  + Len(contracts)) \o " markets..."]
         IN  IF Len(contracts) = 0 THEN [call EXCEPT !.pc = "return"]
             ELSE IF Len(contracts) < limit THEN [merged EXCEPT !.pc = "return"]
             ELSE [merged EXCEPT !.offset = @ + limit]

\* Lines 71-74: what it returns.
getUserPositionsResult(call) ==
    [metricsByContract |-> call.allMetrics, contracts |-> call.allContracts]

----------------------------------------------------------------------------
(* Calls of getUserPositions against a server of bounded data              *)

\* The server holds at most MaxFullPages full pages of markets for a user.
MaxFullPages == 2

MarketId(i) == "m" \o ToString(i)
\* The i-th market of a user, open, closing in ten days, without a usable pool.
FetchedMarket(i) ==
    [SecondMarket EXCEPT !.id = MarketId(i),
                         !.closeTime = Num(Now + 10 * MS_PER_DAY)]
NoSideHolding == [totalShares |-> [YES |-> 0, NO |-> SCALE], answerId |-> ""]
PageHoldings == {TwoSidedHolding, NoSideHolding}
PageSizes == {0, 1, 2, limit}

\* The page of index k holding n markets.  The holdings of its first two
\* markets come with it and, when again is set, so does one more holding of
\* the user's first market, which an earlier page delivered.
PageData(k, n, holding, again) ==
    [contracts |-> [i \in 1..n |-> FetchedMarket(k * limit + i)],
     metricsByContract |->
         (IF again
          THEN <<[contractId |-> MarketId(1), metricsList |-> <<holding>>]>>
          ELSE <<>>)
         \o [i \in 1..(IF n < 2 THEN n ELSE 2) |->
                [contractId |-> MarketId(k * limit + i),
                 metricsList |-> <<holding>>]]]

\* What the server may answer to the request of a page: a failure, or one of
\* the pages above, full only while it has full pages left.
PageResponses(request) ==
    LET k == request.offset \div limit
    IN  {[ok |-> FALSE, status |-> 500, data |-> PageData(k, 0, TwoSidedHolding, FALSE)]}
        \cup {[ok |-> TRUE, status |-> 200, data |-> PageData(k, n, h, again)] :
                 n \in {m \in PageSizes : m = limit => k < MaxFullPages},
                 h \in PageHoldings,
                 again \in {b \in BOOLEAN : b => k > 0}}

UserIds == {"u1", "u2"}

FetchIdle ==
    /\ fetchCall = [getUserPositionsCalled("") EXCEPT !.pc = "idle"]
    /\ requests = <<>>
    /\ served = <<>>

FetchInit ==
    /\ fetchCall \in {[getUserPositionsCalled(u) EXCEPT !.pc = "call"] : u \in UserIds}
    /\ requests = <<>>
    /\ served = <<>>

\* getUserPositions(userId) up to its first await: the first page is asked for.
GetUserPositions ==
    /\ fetchCall.pc = "call"
    /\ fetchCall' = getUserPositionsCalled(fetchCall.userId)
    /\ requests' = <<pageRequest(fetchCall')>>
    /\ UNCHANGED served
    /\ FetchFrame

\* The server answers the awaited request and the loop runs to its next
\* await, its return or its throw.
PageAnswered ==
    /\ fetchCall.pc = "await"
    /\ \E response \in PageResponses(pageRequest(fetchCall)) :
           /\ fetchCall' = getUserPositionsResumed(fetchCall, response)
           /\ served' = Append(served, response)
           /\ requests' = IF fetchCall'.pc = "await"
                          THEN Append(requests, pageRequest(fetchCall'))
                          ELSE requests
    /\ FetchFrame

----------------------------------------------------------------------------
(* The paginated fetch: C15                                                *)

\* The offsets asked for are 0, limit, 2 * limit, ... in order.
OffsetsInOrder ==
    \A i \in DOMAIN requests : requests[i].offset = (i - 1) * limit
\* Every served page but the last was full, and the last one was not.
StoppedAtFirstShortPage ==
    /\ Len(served) = Len(requests)
    /\ \A i \in DOMAIN served :
           (Len(served[i].data.contracts) < limit) <=> (i = Len(served))
\* Every market and every holding of every served page is in the result.
FullyMerged(result) ==
    \A i \in DOMAIN served :
        /\ \A c \in DOMAIN served[i].data.contracts :
               \E d \in DOMAIN result.contracts :
                   result.contracts[d] = served[i].data.contracts[c]
        /\ \A e \in DOMAIN served[i].data.metricsByContract :
               LET entry == served[i].data.metricsByContract[e]
               IN  \A h \in DOMAIN entry.metricsList :
                       \E r \in DOMAIN result.metricsByContract :
                           /\ result.metricsByContract[r].contractId = entry.contractId
                           /\ \E g \in DOMAIN result.metricsByContract[r].metricsList :
                                  result.metricsByContract[r].metricsList[g]
                                      = entry.metricsList[h]
\* No market id has holdings on two served pages, and no page without
\* markets has holdings.
HoldingsOnOnePage ==
    \A i \in DOMAIN served :
        /\ served[i].data.contracts = <<>> => served[i].data.metricsByContract = <<>>
        /\ \A j \in DOMAIN served :
               i # j =>
                   \A e \in DOMAIN served[i].data.metricsByContract :
                       \A f \in DOMAIN served[j].data.metricsByContract :
                           served[i].data.metricsByContract[e].contractId
                               # served[j].data.metricsByContract[f].contractId

\* C15: when every page request succeeds, getUserPositions asks for the
\* offsets 0, 100, 200, ... in order, stops at the first page of fewer than
\* 100 markets, and returns every market and every holding record of every
\* page it fetched, also when two pages deliver holdings of one market id.
C15_PagesFullyMerged ==
    /\ OffsetsInOrder
    /\ fetchCall.pc = "return" =>
           /\ StoppedAtFirstShortPage
           /\ FullyMerged(getUserPositionsResult(fetchCall))

\* The same when each market's holdings come on one page only.
MergedWhenHoldingsOnOnePage ==
    /\ OffsetsInOrder
    /\ fetchCall.pc = "return" =>
           /\ StoppedAtFirstShortPage
           /\ HoldingsOnOnePage => FullyMerged(getUserPositionsResult(fetchCall))

----------------------------------------------------------------------------
(* The page script: helpers on what the page shows                         *)

showLoading(d) == [d EXCEPT !.loadingHidden = FALSE]
hideLoading(d) == [d EXCEPT !.loadingHidden = TRUE]
updateLoadingDetail(d, text) == [d EXCEPT !.loadingDetail = text]
showError(d, message) == [d EXCEPT !.errorText = message, !.errorHidden = FALSE]
hideError(d) == [d EXCEPT !.errorHidden = TRUE]
showResults(d) == [d EXCEPT !.resultsHidden = FALSE]
hideResults(d) == [d EXCEPT !.resultsHidden = TRUE]
setButtonLoading(d, isLoading) ==
    [d EXCEPT !.disabled = isLoading,
              !.buttonText = IF isLoading THEN "Loading..." ELSE "Analyze"]

\* a + b, and Math.round(x) as a whole number of units.
JsAdd(a, b) == JsSub(a, JsSub(Num(0), b))
mathRound(x) ==
    IF IsNum(ToNumber(x))
    THEN Num(((ToNumber(x).v + SCALE \div 2) \div SCALE) * SCALE)
    ELSE NaN

\* list.reduce((sum, p) => sum + p.saleValue, 0) and the same on p.shares.
RECURSIVE sumSaleValue(_)
sumSaleValue(list) ==
    IF list = <<>> THEN Num(0)
    ELSE JsAdd(sumSaleValue(SubSeq(list, 1, Len(list) - 1)),
               list[Len(list)].saleValue)
RECURSIVE sumShares(_)
sumShares(list) ==
    IF list = <<>> THEN Num(0)
    ELSE JsAdd(sumShares(SubSeq(list, 1, Len(list) - 1)),
               Num(list[Len(list)].shares))

\* The summary line: "Showing <showing> positions. <below> with return below
\* margin rate."
summaryLine(list, belowMarginCount) ==
    [showing |-> Len(list), below |-> belowMarginCount]

\* displayResults: the table rows are the records in the order given.
displayResults(d, list, totalPositions, belowMarginCount) ==
    LET belowMarginPositions == SelectSeq(list, isBelowMargin)
    IN  showResults([d EXCEPT
            !.currentPositions = list,
            !.summaryText = summaryLine(list, belowMarginCount),
            !.statPositions = belowMarginCount,
            !.statRecoverable = mathRound(sumSaleValue(belowMarginPositions)),
            !.statPayout = mathRound(sumShares(belowMarginPositions)),
            !.tableRows = list])

\* The page as loaded: nothing typed, the three areas hidden, the button ready.
DomLoaded ==
    [inputValue |-> "", url |-> "", loaded |-> FALSE,
     loadingHidden |-> TRUE, loadingDetail |-> "",
     errorHidden |-> TRUE, errorText |-> "",
     resultsHidden |-> TRUE, disabled |-> FALSE, buttonText |-> "Analyze",
     currentPositions |-> <<>>, summaryText |-> summaryLine(<<>>, 0),
     statPositions |-> 0, statRecoverable |-> Num(0), statPayout |-> Num(0),
     tableRows |-> <<>>]

----------------------------------------------------------------------------
(* The page script: analyzePortfolio                                       *)

EMPTY_USERNAME_MESSAGE == "Please enter a username"

\* Lines 53-65: the page when a run has reset it and awaits the user lookup.
analyzeStarted(d, username) ==
    updateLoadingDetail(
        setButtonLoading(
            showLoading(hideResults(hideError([d EXCEPT !.url = username]))),
            TRUE),
        "Looking up user...")

\* The catch block without showError.
analyzeFailed_Silent(d, message) ==
    setButtonLoading(hideLoading(d), FALSE)

\* Lines 84-89: the catch block, then the finally block.
analyzeFailed(d, message) ==
    setButtonLoading(showError(hideLoading(d), message), FALSE)

\* Lines 74-77: what a run shows of the data it fetched.
positionsSortedOf(result) ==
    getAllPositionsSorted(
        processPositions([contracts |-> result.contracts,
                          metricsByContract |-> result.metricsByContract,
                          currentTime |-> Now]))

\* Lines 72-82 and 87-89: the rest of the try block, then the finally block.
analyzeCompleted(d, result) ==
    LET allPositions ==
            processPositions([contracts |-> result.contracts,
                              metricsByContract |-> result.metricsByContract,
                              currentTime |-> Now])
        allPositionsSorted == getAllPositionsSorted(allPositions)
        belowMarginCount == Len(SelectSeq(allPositionsSorted, isBelowMargin))
    IN  setButtonLoading(
            displayResults(
                hideLoading(updateLoadingDetail(d, "Analyzing positions...")),
                allPositionsSorted, Len(allPositions), belowMarginCount),
            FALSE)

\* getUserId: the message of the error it throws.
userNotFound(username) == "User \"" \o username \o "\" not found"
\* getUserPositions: the message of the error it throws.
fetchingFailed(status) == "Error fetching positions: " \o ToString(status)

----------------------------------------------------------------------------
(* The page in use: key presses, the load event, answers of the server     *)

\* At most MaxRuns calls of analyzePortfolio reach the network.
MaxRuns == 2

\* What the input holds once trimmed and taken out of a pasted profile URL,
\* and the user named in the URL of the page, "" when it names none.
TypedNames == {"", "alice"}
UrlNames == {"", "bob"}
UserIdOf(username) == IF username = "alice" THEN "u1" ELSE "u2"
UserHolding(userId) == IF userId = "u1" THEN TwoSidedHolding ELSE NoSideHolding

\* What the server may answer to a user lookup.
UserResponses(username) ==
    {[ok |-> FALSE, status |-> 404, id |-> ""],
     [ok |-> TRUE, status |-> 200, id |-> UserIdOf(username)]}

\* What it may answer to a page request of the page script, whose users
\* hold 1 or limit + 1 markets: a failure, a page of one market, or a full
\* first page.
UiPageResponses(request) ==
    LET k == request.offset \div limit
    IN  {[ok |-> FALSE, status |-> 500,
          data |-> PageData(k, 0, TwoSidedHolding, FALSE)]}
        \cup {[ok |-> TRUE, status |-> 200,
               data |-> PageData(k, n, UserHolding(request.userId), FALSE)] :
                 n \in {m \in {1, limit} : m = limit => k = 0}}

\* The locals of getUserPositions before its call and after its end.
NoFetch == [getUserPositionsCalled("") EXCEPT !.pc = "idle"]

\* The request of the user lookup, and a page request, as a run sends them.
userLookup(username) == [path |-> "user", name |-> username, offset |-> 0]
positionsPage(call) ==
    [path |-> "positions", name |-> pageRequest(call).userId,
     offset |-> pageRequest(call).offset]

\* A run of analyzePortfolio past line 61: its locals, where it stands, the
\* requests it sent, the answers it got (ok or not), and how it ended.
RunStarted(username) ==
    [username |-> username, pc |-> "awaitUser", userId |-> "",
     fetch |-> NoFetch, sent |-> <<userLookup(username)>>,
     answers |-> <<>>, outcome |-> "", message |-> "",
     allPositionsSorted |-> <<>>]

UiIdle ==
    /\ runs = <<>>
    /\ dom = DomLoaded

UiInit ==
    /\ dom = DomLoaded
    /\ runs = <<>>

\* analyzePortfolio up to its return at line 50 or its first await, on the
\* page d whose input holds username.
AnalyzePortfolio(d, username) ==
    IF username = ""
    THEN /\ dom' = showError(d, EMPTY_USERNAME_MESSAGE)
         /\ UNCHANGED runs
    ELSE /\ Len(runs) < MaxRuns
         /\ dom' = analyzeStarted(d, username)
         /\ runs' = Append(runs, RunStarted(username))

\* Lines 20-24: Enter is pressed in the input of the loaded page, whatever
\* the button shows.
KeyEnter ==
    /\ dom.loaded
    /\ \E typed \in TypedNames :
           AnalyzePortfolio([dom EXCEPT !.inputValue = typed], typed)
    /\ UiFrame

\* Lines 27-34: the load event, with or without a user in the URL.
WindowLoad ==
    /\ ~dom.loaded
    /\ \E username \in UrlNames :
           IF username = ""
           THEN /\ dom' = [dom EXCEPT !.loaded = TRUE]
                /\ UNCHANGED runs
           ELSE AnalyzePortfolio(
                    [dom EXCEPT !.loaded = TRUE, !.inputValue = username],
                    username)
    /\ UiFrame

\* The user lookup of run r is answered: getUserId returns or throws, and
\* the run goes on to its next await or to its catch block.
UserAnswered(r) ==
    /\ runs[r].pc = "awaitUser"
    /\ \E response \in UserResponses(runs[r].username) :
           IF ~response.ok
           THEN /\ runs' = [runs EXCEPT
                        ![r].pc = "done", ![r].outcome = "error",
                        ![r].answers = Append(@, FALSE),
                        ![r].message = userNotFound(runs[r].username)]
                /\ dom' = analyzeFailed(dom, userNotFound(runs[r].username))
           ELSE /\ runs' = [runs EXCEPT
                        ![r].pc = "awaitPage", ![r].userId = response.id,
                        ![r].answers = Append(@, TRUE),
                        ![r].fetch = getUserPositionsCalled(response.id),
                        ![r].sent = Append(@,
                            positionsPage(getUserPositionsCalled(response.id)))]
                /\ dom' = updateLoadingDetail(dom, "Fetching positions...")
    /\ UiFrame

\* A page request of run r is answered: getUserPositions goes round its loop,
\* throws or returns, and the run goes on to its end.
PageReceived(r) ==
    /\ runs[r].pc = "awaitPage"
    /\ \E response \in UiPageResponses(pageRequest(runs[r].fetch)) :
           LET call == getUserPositionsResumed(runs[r].fetch, response)
               told == IF response.ok /\ response.data.contracts # <<>>
                       THEN updateLoadingDetail(dom, call.progress)
                       ELSE dom
               result == getUserPositionsResult(call)
           IN  CASE call.pc = "await" ->
                        /\ runs' = [runs EXCEPT ![r].fetch = call,
                                       ![r].answers = Append(@, TRUE),
                                       ![r].sent = Append(@, positionsPage(call))]
                        /\ dom' = told
                 [] call.pc = "throw" ->
                        /\ runs' = [runs EXCEPT
                               ![r].fetch = NoFetch, ![r].pc = "done",
                               ![r].answers = Append(@, FALSE),
                               ![r].outcome = "error",
                               ![r].message = fetchingFailed(call.status)]
                        /\ dom' = analyzeFailed(told, fetchingFailed(call.status))
                 [] call.pc = "return" ->
                        /\ runs' = [runs EXCEPT
                               ![r].fetch = NoFetch, ![r].pc = "done",
                               ![r].answers = Append(@, TRUE),
                               ![r].outcome = "displayed",
                               ![r].allPositionsSorted = positionsSortedOf(result)]
                        /\ dom' = analyzeCompleted(told, result)
    /\ UiFrame

UserLookupAnswered == \E r \in DOMAIN runs : UserAnswered(r)
PageRequestAnswered == \E r \in DOMAIN runs : PageReceived(r)

----------------------------------------------------------------------------
(* Failed requests: C12                                                    *)

\* One of the answers of run r in rs was a failure.
FailedIn(rs, r) == \E i \in DOMAIN rs[r].answers : ~rs[r].answers[i]

\* A run one of whose requests failed has ended in its catch block at that
\* answer: it has processed and displayed nothing, and it has sent no request
\* after the failed one and none twice.
AbortedAtFailure ==
    \A r \in DOMAIN runs :
        FailedIn(runs, r) =>
            /\ runs[r].pc = "done"
            /\ runs[r].outcome = "error"
            /\ runs[r].allPositionsSorted = <<>>
            /\ \A i \in DOMAIN runs[r].answers :
                   runs[r].answers[i] <=> i < Len(runs[r].answers)
            /\ Len(runs[r].sent) = Len(runs[r].answers)
            /\ \A i, j \in DOMAIN runs[r].sent :
                   i # j => runs[r].sent[i] # runs[r].sent[j]
\* While no run has reached displayResults the results area is hidden and
\* the table is empty.
HiddenUntilDisplayed ==
    (\A r \in DOMAIN runs : runs[r].outcome # "displayed") =>
        /\ dom.resultsHidden
        /\ dom.tableRows = <<>>
        /\ dom.currentPositions = <<>>
\* The step in which a request of a run fails shows the run's error message
\* and leaves the results area, the table and the summary as they were.
FailureShown ==
    \A r \in DOMAIN runs :
        (~FailedIn(runs, r) /\ FailedIn(runs', r)) =>
            /\ ~dom'.errorHidden
            /\ dom'.errorText = runs'[r].message
            /\ dom'.resultsHidden = dom.resultsHidden
            /\ dom'.tableRows = dom.tableRows
            /\ dom'.currentPositions = dom.currentPositions
            /\ dom'.summaryText = dom.summaryText

\* C12: when the user lookup or a page request of a run is answered with a
\* failure, also after earlier pages succeeded, the run ends there: it
\* processes and displays nothing of the pages it fetched, it leaves the
\* results area hidden, it shows its error message, and it sends no request
\* again.
C12_FailureAbortsRun ==
    [](AbortedAtFailure /\ HiddenUntilDisplayed) /\ [][FailureShown]_vars

\* A run failed on its second page, after the user lookup and a full first
\* page, and its message is what the page shows.
C12_Witness ==
    \E r \in DOMAIN runs :
        /\ runs[r].pc = "done"
        /\ runs[r].answers = <<TRUE, TRUE, FALSE>>
        /\ runs[r].outcome = "error"
        /\ ~dom.errorHidden
        /\ dom.errorText = runs[r].message
        /\ dom.resultsHidden
        /\ dom.tableRows = <<>>

----------------------------------------------------------------------------
(* Overlapping runs: C16, C17                                              *)

AllRunsCompleted ==
    runs # <<>> /\ \A r \in DOMAIN runs : runs[r].pc = "done"
RunInFlight == \E r \in DOMAIN runs : runs[r].pc # "done"
\* The results, or the error, of run r are what the page shows: no other
\* run's table, summary or error message.
ShowsOutcomeOf(r) ==
    IF runs[r].outcome = "displayed"
    THEN /\ ~dom.resultsHidden
         /\ dom.tableRows = runs[r].allPositionsSorted
         /\ dom.currentPositions = runs[r].allPositionsSorted
         /\ dom.summaryText.showing = Len(runs[r].allPositionsSorted)
         /\ dom.errorHidden \/ dom.errorText = EMPTY_USERNAME_MESSAGE
    ELSE /\ dom.resultsHidden
         /\ ~dom.errorHidden
         /\ dom.errorText \in {runs[r].message, EMPTY_USERNAME_MESSAGE}

\* C16: whatever the interleaving of overlapping runs, once all runs have
\* completed the page shows the table and summary, or the error, of the run
\* started last; no earlier run that ends later replaces them.
C16_LatestRunShown ==
    AllRunsCompleted => ShowsOutcomeOf(Len(runs))

LoadingShown == dom.disabled /\ dom.buttonText = "Loading..." /\ ~dom.loadingHidden
LoadingCleared == ~dom.disabled /\ dom.buttonText = "Analyze" /\ dom.loadingHidden

\* C17: in every state the button is disabled, showing 'Loading...', and the
\* loading indicator is visible exactly when some run is in flight; a run
\* that ends while a later one still awaits the network changes neither.
C17_LoadingIffRunInFlight ==
    IF RunInFlight THEN LoadingShown ELSE LoadingCleared

\* The same while the page has started one run only.
LoadingIffSingleRunInFlight ==
    Len(runs) <= 1 => (IF RunInFlight THEN LoadingShown ELSE LoadingCleared)
\* The outcome shown is the single run's.
SingleRunShown ==
    (Len(runs) = 1 /\ AllRunsCompleted) => ShowsOutcomeOf(1)

----------------------------------------------------------------------------
(* The AMM solver: C13, C14                                                *)

\* The cost of s shares on the pool, weight and outcome of the call.
CostOf(s) ==
    calculateAmountToBuyShares(ammArgs.pool, ammArgs.p, s, ammArgs.outcome)

Brackets(lo, hi) ==
    /\ lo <= hi
    /\ calculateCpmmShares(ammArgs.pool, ammArgs.p, lo, ammArgs.outcome)
           <= ammArgs.shares
    /\ calculateCpmmShares(ammArgs.pool, ammArgs.p, hi, ammArgs.outcome)
           >= ammArgs.shares

\* The interval the search of the call starts from.
FirstInterval ==
    [minAmount |-> bisectionLowerBound(ammArgs.pool, ammArgs.shares, ammArgs.outcome),
     maxAmount |-> ammArgs.shares, mid |-> 0, done |-> FALSE]

\* The interval brackets the exact cost from step i to the end of the search.
RECURSIVE BracketedFrom(_, _)
BracketedFrom(st, i) ==
    /\ Brackets(st.minAmount, st.maxAmount)
    /\ (i < BISECTION_STEPS /\ ~st.done) =>
           BracketedFrom(bisectionStep(ammArgs.pool, ammArgs.p, ammArgs.shares,
                                       ammArgs.outcome, st), i + 1)

\* C14: for shares > 0 on a usable pool, with any weight p, the interval
\* [shares * probability, shares] the search starts from brackets the exact
\* cost, it still does after each of the at most 50 halvings, and the amount
\* returned lies in the first interval.
C14_IntervalBracketsCost ==
    (ammPc = "cost" /\ PoolUsable(ammArgs.pool) /\ ammArgs.shares > 0) =>
        /\ BracketedFrom(FirstInterval, 0)
        /\ FirstInterval.minAmount <= ammRet.amount
        /\ ammRet.amount <= FirstInterval.maxAmount

\* The same at weight 1/2, where n / (y + n) is the probability.
BracketsCostAtHalf ==
    (ammPc = "cost" /\ PoolUsable(ammArgs.pool) /\ ammArgs.shares > 0
        /\ ammArgs.p = Half) =>
        /\ BracketedFrom(FirstInterval, 0)
        /\ FirstInterval.minAmount <= ammRet.amount
        /\ ammRet.amount <= FirstInterval.maxAmount
\* At any weight the amount returned lies in the first interval.
AmountInFirstInterval ==
    (ammPc = "cost" /\ PoolUsable(ammArgs.pool) /\ ammArgs.shares > 0) =>
        /\ FirstInterval.minAmount <= ammRet.amount
        /\ ammRet.amount <= FirstInterval.maxAmount

----------------------------------------------------------------------------
(* Specifications                                                          *)

InitAmm == AmmInit /\ RetIdle /\ PipeIdle /\ RankIdle /\ FetchIdle /\ UiIdle
NextAmm == CostFromShares \/ SharesFromCost \/ SaleValue
SpecAmm == InitAmm /\ [][NextAmm]_vars

InitReturn == AmmIdle /\ RetInit /\ PipeIdle /\ RankIdle /\ FetchIdle /\ UiIdle
NextReturn == ReturnIfCorrect
SpecReturn == InitReturn /\ [][NextReturn]_vars

InitPipeline == AmmIdle /\ RetIdle /\ PipeInit /\ RankIdle /\ FetchIdle /\ UiIdle
NextPipeline == ProcessPositions
SpecPipeline == InitPipeline /\ [][NextPipeline]_vars

InitRank == AmmIdle /\ RetIdle /\ PipeIdle /\ RankInit /\ FetchIdle /\ UiIdle
NextRank == BelowMarginRate \/ AllPositionsSorted
SpecRank == InitRank /\ [][NextRank]_vars

InitFetch == AmmIdle /\ RetIdle /\ PipeIdle /\ RankIdle /\ FetchInit /\ UiIdle
NextFetch == GetUserPositions \/ PageAnswered
SpecFetch == InitFetch /\ [][NextFetch]_vars

InitUi == AmmIdle /\ RetIdle /\ PipeIdle /\ RankIdle /\ FetchIdle /\ UiInit
NextUi == KeyEnter \/ WindowLoad \/ UserLookupAnswered \/ PageRequestAnswered
SpecUi == InitUi /\ [][NextUi]_vars

====
